---- MODULE Spec2Model ----
(***************************************************************************)
(* A model of supermarket's src/app.rs: the App state (exit, curr), the    *)
(* run loop (draw, then block for one terminal event, then dispatch it),   *)
(* and the Widget::render body that turns one sysinfo snapshot into the    *)
(* memory gauge, the CPU gauge and the process table.                      *)
(*                                                                         *)
(* f32 values are modelled as binary32 numbers: a 24-bit significand m and *)
(* an exponent e (value m * 2^e), with round-to-nearest-even on division   *)
(* and multiplication, plus NaN and +infinity, so that `as u16` and        *)
(* `.round()` are computed the way the build computes them.                *)
(***************************************************************************)
EXTENDS Integers, Sequences, FiniteSets, TLC

(* ------------------------------ bounds --------------------------------- *)

\* used_memory and total_memory range over 0..MaxTotal (bytes).
MaxTotal == 3
\* every process list of length <= MaxSmall over memories 0..MaxMem is drawn.
MaxSmall == 2
MaxMem == 1
\* longer process lists are ramps of MaxProcs - 2 .. MaxProcs entries, which
\* straddle the table's limit of ten rows.
MaxProcs == 11
\* the run loop is followed for at most MaxDraws calls of terminal.draw.
MaxDraws == 3

(* --------------------------- program constants ------------------------- *)

\* `if i >= 10 { break; }`
RowLimit == 10
\* `(self.curr + 1) % 3`, `(self.curr + 2) % 3`
PaneCount == 3
\* Gauge::percent accepts 0..=100 and panics above it.
GaugeMax == 100
\* u16::MAX, where a float-to-u16 cast saturates.
U16Max == 65535

(* ------------------------------ binary32 ------------------------------- *)

F32NaN == [k |-> "nan", m |-> 0, e |-> 0]
F32Inf == [k |-> "inf", m |-> 0, e |-> 0]
F32Zero == [k |-> "num", m |-> 0, e |-> 0]

\* Round to nearest, ties to even: quotient q with remainder r over divisor d.
RoundNearestEven(q, r, d) ==
  IF 2 * r > d \/ (2 * r = d /\ q % 2 = 1) THEN q + 1 ELSE q

\* A rounded significand may carry into the next binade.
F32Normal(m, e) ==
  IF m = 2^24 THEN [k |-> "num", m |-> 2^23, e |-> e + 1]
  ELSE [k |-> "num", m |-> m, e |-> e]

\* The least s >= from with a * 2^s / b >= 2^23.
RECURSIVE F32Scale(_, _, _)
F32Scale(a, b, s) ==
  IF (a * 2^s) \div b >= 2^23 THEN s ELSE F32Scale(a, b, s + 1)

\* `a as f32 / b as f32` for integers a, b that binary32 holds exactly
\* (a, b < 2^24; here b < 2^7 keeps a * 2^s inside TLC's integers).
F32Div(a, b) ==
  IF b = 0 THEN (IF a = 0 THEN F32NaN ELSE F32Inf)
  ELSE IF a = 0 THEN F32Zero
  ELSE LET s == F32Scale(a, b, 0)
           n == a * 2^s
       IN  F32Normal(RoundNearestEven(n \div b, n % b, b), 0 - s)

\* `100.0 * x`
F32Mul100(x) ==
  IF x.k # "num" \/ x.m = 0 THEN x
  ELSE LET p == x.m * 100
           s == IF p >= 2^30 THEN 7 ELSE 6
           d == 2^s
       IN  F32Normal(RoundNearestEven(p \div d, p % d, d), x.e + s)

\* `x as u16`: truncation toward zero, saturating, NaN to 0.
F32AsU16(x) ==
  IF x.k = "nan" THEN 0
  ELSE IF x.k = "inf" THEN U16Max
  ELSE IF x.m = 0 THEN 0
  ELSE IF x.e >= 0 THEN U16Max
  ELSE IF 0 - x.e >= 24 THEN 0
  ELSE LET t == x.m \div 2^(0 - x.e)
       IN  IF t > U16Max THEN U16Max ELSE t

\* `format!("{}%", x.round())`: round half away from zero, then Display.
F32RoundLabel(x) ==
  IF x.k = "nan" THEN "NaN%"
  ELSE IF x.k = "inf" THEN "inf%"
  ELSE IF x.m = 0 THEN "0%"
  ELSE IF x.e >= 0 THEN ToString(x.m * 2^x.e) \o "%"
  ELSE IF 0 - x.e >= 25 THEN "0%"
  ELSE LET d == 2^(0 - x.e)
       IN  ToString((2 * x.m + d) \div (2 * d)) \o "%"

(* ------------------------ the sysinfo snapshot ------------------------- *)

\* The Option-returning getters render unwraps with expect, in source order.
IdentityFields ==
  <<"name", "host_name", "os_version", "kernel_version", "physical_core_count">>

\* At most one getter returns None in a snapshot.
AbsentChoices == {{}} \cup {{IdentityFields[i]} : i \in 1..Len(IdentityFields)}

\* global_cpu_info().cpu_usage(), in tenths of a percent before f32 rounding.
CpuTenths == {0, 378, 996, 1000, 1500}

\* sys.processes() as iterated: process i is the i-th entry the iterator
\* yields; it is displayed under its own name, here its position.
Processes(mems) ==
  [i \in 1..Len(mems) |-> [pid |-> i, memory |-> mems[i]]]

SmallLists == UNION {[1..n -> 0..MaxMem] : n \in 0..MaxSmall}

\* n processes of rising, distinct memory.
DistinctRamp(n) == [i \in 1..n |-> i]
\* the same with the first two processes tied.
TiedRamp(n) == [i \in 1..n |-> IF i <= 2 THEN 2 ELSE i]

ProcessLists ==
  {Processes(m) : m \in SmallLists}
    \cup {Processes(DistinctRamp(n)) : n \in (MaxProcs - 2)..MaxProcs}
    \cup {Processes(TiedRamp(n)) : n \in (MaxProcs - 2)..MaxProcs}

\* What System::new_all() followed by refresh_all() may hold.
Snapshots ==
  [used_memory : 0..MaxTotal,
   total_memory : 0..MaxTotal,
   cpu_usage : {F32Div(t, 10) : t \in CpuTenths},
   processes : ProcessLists,
   absent : AbsentChoices]

NoSys ==
  [used_memory |-> 0, total_memory |-> 0, cpu_usage |-> F32Zero,
   processes |-> <<>>, absent |-> {}]

(* ------------------------------- render -------------------------------- *)

RemoveAt(s, i) == SubSeq(s, 1, i - 1) \o SubSeq(s, i + 1, Len(s))

\* The comparator reversed: a.memory.cmp(&b.memory).
MinMemory(s) ==
  CHOOSE m \in {s[i].memory : i \in 1..Len(s)} :
    \A i \in 1..Len(s) : m <= s[i].memory

MaxMemory(s) ==
  CHOOSE m \in {s[i].memory : i \in 1..Len(s)} :
    \A i \in 1..Len(s) : s[i].memory <= m

\* sorted.sort_unstable_by(|a, b| b.memory.cmp(&a.memory)): every arrangement
\* of the input that the comparator orders, since the order of equal
\* elements is not preserved.
RECURSIVE SortUnstableBy(_)
SortUnstableBy(s) ==
  IF s = <<>> THEN {<<>>}
  ELSE LET heads == {i \in 1..Len(s) : s[i].memory = MaxMemory(s)}
       IN  UNION {{<<s[i]>> \o t : t \in SortUnstableBy(RemoveAt(s, i))} :
                  i \in heads}

Min(a, b) == IF a <= b THEN a ELSE b

\* Gauge::percent(p): `assert!(percent <= 100, ...)`.
GaugePanics(p) == p > GaugeMax

HeaderRow == [name |-> "Name", usage |-> "Memory Usage", style |-> "black_on_red"]

\* The break test written `i > 10`.
RowCountOffByOne(n) == Min(RowLimit + 1, n)

\* The number of times the body of `for (_, process) in sorted` runs.
RowCount(n) == Min(RowLimit, n)

\* One data row: the name, `format!("{}%", 100 * memory / total)` and the
\* banding `match i % 2 { 0 => on_black, _ => {} }` (i counts from 0).
DataRow(process, total, i) ==
  [name |-> ToString(process.pid),
   usage |-> ToString((100 * process.memory) \div total) \o "%",
   style |-> IF i % 2 = 0 THEN "on_black" ELSE "plain"]

\* rows after the loop: the header, then one row per iteration.
BuildRows(sorted, total) ==
  <<HeaderRow>> \o
    [j \in 1..RowCount(Len(sorted)) |-> DataRow(sorted[j], total, j - 1)]

\* The first getter, in source order, that expect() finds None.
FirstAbsent(absent) ==
  LET hit == {i \in 1..Len(IdentityFields) : IdentityFields[i] \in absent}
  IN  IF hit = {} THEN 0
      ELSE CHOOSE i \in hit : \A j \in hit : i <= j

NoGauge == [percent |-> 0, label |-> ""]

NoFrame ==
  [panic |-> "none", painted |-> {}, memory_bar |-> NoGauge,
   usage_bar |-> NoGauge, sorted |-> <<>>, rows |-> <<>>]

\* <App as Widget>::render on snapshot sys, with `sorted` as the sort left it.
\* The record holds what was painted before render returned or panicked.
Render(sys, sorted) ==
  LET ratio == F32Mul100(F32Div(sys.used_memory, sys.total_memory))
      memory_bar == [percent |-> F32AsU16(ratio), label |-> F32RoundLabel(ratio)]
      usage_bar == [percent |-> F32AsU16(sys.cpu_usage),
                    label |-> F32RoundLabel(sys.cpu_usage)]
      missing == FirstAbsent(sys.absent)
  IN  IF GaugePanics(memory_bar.percent)
      THEN [NoFrame EXCEPT !.panic = "Percentage should be between 0 and 100 inclusively."]
      ELSE IF GaugePanics(usage_bar.percent)
      THEN [NoFrame EXCEPT !.panic = "Percentage should be between 0 and 100 inclusively.",
                           !.painted = {"memory_bar"},
                           !.memory_bar = memory_bar]
      ELSE IF sorted # <<>> /\ sys.total_memory = 0
      THEN [NoFrame EXCEPT !.panic = "attempt to divide by zero",
                           !.painted = {"memory_bar", "usage_bar"},
                           !.memory_bar = memory_bar,
                           !.usage_bar = usage_bar,
                           !.sorted = sorted]
      ELSE LET table == [panic |-> "none",
                         painted |-> {"memory_bar", "usage_bar", "table"},
                         memory_bar |-> memory_bar,
                         usage_bar |-> usage_bar,
                         sorted |-> sorted,
                         rows |-> BuildRows(sorted, sys.total_memory)]
           IN  IF missing \in 1..4
               THEN [table EXCEPT !.panic = "Name not found!"]
               ELSE IF missing = 5
               THEN [table EXCEPT !.panic = "No Cores!",
                                  !.painted = @ \cup {"paragraph"}]
               ELSE [table EXCEPT !.painted = @ \cup {"paragraph", "spec_table"}]

(* ------------------------- the terminal events ------------------------- *)

\* KeyCode values: the three the program matches, and two it does not.
KeyCodes == {"q", "Left", "Right", "x", "Esc"}
KeyKinds == {"Press", "Release", "Repeat"}

\* What event::read() may return: a key event, or an event of another kind.
Events ==
  [type : {"Key"}, code : KeyCodes, kind : KeyKinds]
    \cup [type : {"Resize", "Mouse", "FocusGained"}, code : {""}, kind : {""}]

NoEvent == [type |-> "", code |-> "", kind |-> ""]

\* Left written as a plain decrement, without the wraparound.
handle_key_event_decrement(code, app) ==
  IF code = "q" THEN [app EXCEPT !.exit = TRUE]
  ELSE IF code = "Left" THEN [app EXCEPT !.curr = app.curr - 1]
  ELSE IF code = "Right" THEN [app EXCEPT !.curr = (app.curr + 1) % PaneCount]
  ELSE app

\* The two navigation arms swapped.
handle_key_event_swapped(code, app) ==
  IF code = "q" THEN [app EXCEPT !.exit = TRUE]
  ELSE IF code = "Left" THEN [app EXCEPT !.curr = (app.curr + 1) % PaneCount]
  ELSE IF code = "Right" THEN [app EXCEPT !.curr = (app.curr + 2) % PaneCount]
  ELSE app

\* The quit arm written KeyCode::Char(_): any character key quits.
handle_key_event_any_char(code, app) ==
  IF code \in {"q", "x"} THEN [app EXCEPT !.exit = TRUE]
  ELSE IF code = "Left" THEN [app EXCEPT !.curr = (app.curr + 2) % PaneCount]
  ELSE IF code = "Right" THEN [app EXCEPT !.curr = (app.curr + 1) % PaneCount]
  ELSE app

\* App::handle_key_event on app = [exit, curr].
handle_key_event(code, app) ==
  IF code = "q" THEN [app EXCEPT !.exit = TRUE]
  ELSE IF code = "Left" THEN [app EXCEPT !.curr = (app.curr + 2) % PaneCount]
  ELSE IF code = "Right" THEN [app EXCEPT !.curr = (app.curr + 1) % PaneCount]
  ELSE app

\* The match without its guard on KeyEventKind::Press.
handle_events_any_kind(event, app) ==
  IF event.type = "Key"
  THEN handle_key_event(event.code, app)
  ELSE app

\* The match in App::handle_events on the event read.
handle_events(event, app) ==
  IF event.type = "Key" /\ event.kind = "Press"
  THEN handle_key_event(event.code, app)
  ELSE app

(* ------------------------------ the state ------------------------------ *)

VARIABLES
  exit,    \* App.exit
  curr,    \* App.curr
  pc,      \* where App::run stands
  ev,      \* the event handle_events has read and not yet matched
  sys,     \* render's local System, while a draw is under way
  frame,   \* what render has painted into the draw's buffer
  draws,   \* calls of terminal.draw so far
  reads    \* events event::read() has returned so far

vars == <<exit, curr, pc, ev, sys, frame, draws, reads>>

\* App::default(), at the entry of App::run.
Init ==
  /\ exit = FALSE
  /\ curr = 0
  /\ pc = "loop"
  /\ ev = NoEvent
  /\ sys = NoSys
  /\ frame = NoFrame
  /\ draws = 0
  /\ reads = 0

\* The draw hoisted out of the loop: only the first pass draws.
RunLoopDrawOnce ==
  /\ pc = "loop"
  /\ pc' = IF exit THEN "done" ELSE IF draws = 0 THEN "draw" ELSE "read"
  /\ UNCHANGED <<exit, curr, ev, sys, frame, draws, reads>>

\* `while !self.exit { ... } Ok(())`
RunLoop ==
  /\ pc = "loop"
  /\ pc' = IF exit THEN "done" ELSE "draw"
  /\ UNCHANGED <<exit, curr, ev, sys, frame, draws, reads>>

\* terminal.draw calls render_frame, which copies the App into render:
\* System::new_all() and sys.refresh_all().
Acquire ==
  /\ pc = "draw"
  /\ draws < MaxDraws
  /\ sys' \in Snapshots
  /\ draws' = draws + 1
  /\ pc' = "render"
  /\ UNCHANGED <<exit, curr, ev, frame, reads>>

\* The rest of render: it returns, or panics part of the way through.
RenderFrame ==
  /\ pc = "render"
  /\ \E sorted \in SortUnstableBy(sys.processes) :
       frame' = Render(sys, sorted)
  /\ pc' = IF frame'.panic = "none" THEN "flush" ELSE "panic"
  /\ UNCHANGED <<exit, curr, ev, sys, draws, reads>>

\* terminal.draw returns Ok: the buffer is flushed and sys is dropped.
DrawReturns ==
  /\ pc = "flush"
  /\ pc' = "read"
  /\ sys' = NoSys
  /\ frame' = NoFrame
  /\ UNCHANGED <<exit, curr, ev, draws, reads>>

\* terminal.draw returns Err, which `?` returns from run.
DrawFails ==
  /\ pc = "flush"
  /\ pc' = "err"
  /\ sys' = NoSys
  /\ frame' = NoFrame
  /\ UNCHANGED <<exit, curr, ev, draws, reads>>

\* event::read() blocks, then returns one event.
ReadEvent ==
  /\ pc = "read"
  /\ ev' \in Events
  /\ reads' = reads + 1
  /\ pc' = "handle"
  /\ UNCHANGED <<exit, curr, sys, frame, draws>>

\* event::read() returns Err, which `?` returns from handle_events and run.
ReadFails ==
  /\ pc = "read"
  /\ pc' = "err"
  /\ UNCHANGED <<exit, curr, ev, sys, frame, draws, reads>>

\* The match on the event, and the return to the loop's condition.
Dispatch ==
  /\ pc = "handle"
  /\ LET app == handle_events(ev, [exit |-> exit, curr |-> curr])
     IN  /\ exit' = app.exit
         /\ curr' = app.curr
  /\ ev' = NoEvent
  /\ pc' = "loop"
  /\ UNCHANGED <<sys, frame, draws, reads>>

Next ==
  \/ RunLoop
  \/ Acquire
  \/ RenderFrame
  \/ DrawReturns
  \/ DrawFails
  \/ ReadEvent
  \/ ReadFails
  \/ Dispatch

Spec == Init /\ [][Next]_vars

(* ------------------------------ properties ----------------------------- *)

PressOf(code) == [type |-> "Key", code |-> code, kind |-> "Press"]

\* render has run on sys: it returned (flush) or panicked (panic).
Rendered == pc \in {"flush", "panic"}

\* C1: whatever events have been handled, the selected pane index curr is
\* one of 0, 1, 2.
C1_CurrInRange == curr \in {0, 1, 2}

\* Two events handled, the index moved to 1 (Left twice, or Right and an
\* ignored event).
C1_Witness == pc = "loop" /\ reads = 2 /\ curr = 1

\* C2: a Right press maps index i to (i+1) mod 3 and a Left press maps i to
\* (i-1) mod 3, so Right cycles 0,1,2,0 and Left cycles 0,2,1,0.
C2_NavigationCycles ==
  [][(pc = "handle" /\ ev.type = "Key" /\ ev.kind = "Press") =>
       /\ (ev.code = "Right" => curr' = (curr + 1) % 3)
       /\ (ev.code = "Left" => curr' = (curr - 1) % 3)
       /\ (ev.code = "Right" /\ curr = 2 => curr' = 0)
       /\ (ev.code = "Left" /\ curr = 0 => curr' = 2)]_vars

\* After one event the index is 2: a Left press wrapped it from 0.
C2_Witness == pc = "loop" /\ reads = 1 /\ curr = 2

\* C3: exit becomes true only when a Press of 'q' is dispatched, no other
\* event changes it, the loop leaves for Ok only with exit set, and exit is
\* never reset.
C3_QuitOnlyOnPressQ ==
  [][/\ (exit' # exit => pc = "handle" /\ ev = PressOf("q") /\ exit')
     /\ (pc = "handle" /\ ev # PressOf("q") => exit' = exit)
     /\ (pc' = "done" /\ pc # "done" => exit)
     /\ (exit => exit')]_vars

\* A Press of 'q' has been dispatched and the loop has not yet tested exit.
C3_Witness == pc = "loop" /\ exit

\* C4: draws and reads alternate, starting with a draw (at every moment the
\* draws are the reads or one more), a dispatched event always leads back to
\* the loop's test, and when the first event is a Press of 'q' exactly one
\* draw has happened and the loop ends with Ok without drawing again.
C4_DrawReadAlternate ==
  /\ [](draws - reads \in {0, 1})
  /\ [](pc \in {"render", "flush", "read"} => draws = reads + 1)
  /\ [](pc \in {"handle", "loop", "draw", "done"} => draws = reads)
  /\ [][/\ (pc = "handle" /\ reads = 1 /\ ev = PressOf("q") =>
              draws = 1 /\ exit' /\ pc' = "loop")
        /\ (pc = "loop" /\ exit => pc' = "done" /\ draws' = draws)]_vars

\* The loop has ended with Ok after one draw and one event.
C4_Witness == pc = "done" /\ reads = 1 /\ draws = 1

\* C5: dispatching a non-key event, a press of a key other than 'q', Left
\* and Right, or a release or repeat of any key leaves exit and curr as they
\* were, and the controller stays in Running.
C5_IgnoredEvents ==
  [][(/\ pc = "handle"
      /\ ~(ev.type = "Key" /\ ev.kind = "Press"
             /\ ev.code \in {"q", "Left", "Right"})) =>
       exit' = exit /\ curr' = curr /\ ~exit' /\ pc' = "loop"]_vars

\* The first event was ignored: one event handled, nothing changed.
C5_Witness == pc = "loop" /\ reads = 1 /\ curr = 0 /\ ~exit

C7_TableRows ==
  "table" \in frame.painted =>
    LET n == Len(sys.processes)
        k == IF n < 10 THEN n ELSE 10
    IN  /\ Len(frame.rows) = 1 + k
        /\ Len(frame.rows) - 1 <= 10
        /\ frame.rows[1] = HeaderRow
        /\ \A j \in 2..Len(frame.rows) : frame.rows[j].style # HeaderRow.style
        /\ \A j \in 1..k : frame.rows[j + 1].name = ToString(frame.sorted[j].pid)

\* Eleven processes, ten data rows under the header.
C7_Witness ==
  /\ "table" \in frame.painted
  /\ Len(sys.processes) = 11
  /\ Len(frame.rows) = 11

\* C8: with total memory 0 (the identity getters present, the CPU usage in
\* range) render raises no fault, the memory gauge and label show 0 and
\* every process row shows 0%.
C8_ZeroTotalNoFault ==
  (/\ Rendered
   /\ sys.total_memory = 0
   /\ sys.absent = {}
   /\ F32AsU16(sys.cpu_usage) <= 100) =>
    /\ frame.panic = "none"
    /\ "table" \in frame.painted
    /\ frame.memory_bar = [percent |-> 0, label |-> "0%"]
    /\ Len(frame.rows) = 1 + Min(10, Len(sys.processes))
    /\ \A j \in 2..Len(frame.rows) : frame.rows[j].usage = "0%"

\* C9: with total > 0 and used <= total the memory percentage is in 0..100
\* and the gauge's fill is round(100 * used / total), the integer the label
\* shows.
C9_MemoryFillRounded ==
  (Rendered /\ sys.total_memory > 0 /\ sys.used_memory <= sys.total_memory) =>
    LET r == (200 * sys.used_memory + sys.total_memory)
               \div (2 * sys.total_memory)
    IN  /\ "memory_bar" \in frame.painted
        /\ frame.memory_bar.percent \in 0..100
        /\ frame.memory_bar.percent = r
        /\ frame.memory_bar.label = ToString(r) \o "%"

\* C10: for every CPU usage, also above 100.0, the fill passed to the CPU
\* gauge is within 0..100 and render does not crash there.
C10_CpuFillClamped ==
  (Rendered /\ "memory_bar" \in frame.painted) =>
    /\ "usage_bar" \in frame.painted
    /\ frame.usage_bar.percent \in 0..100

====
